---- MODULE Spec2Model ----
(***************************************************************************)
(* A model of src/ingest.py: the listings ETL run of main().               *)
(*                                                                         *)
(* Text is a sequence of one-character strings, so that strip(), lower()   *)
(* and title() are computed character by character.  A missing value       *)
(* (NaN / <NA> / NaT / None) of a text column is NA; date_parsed is a      *)
(* tuple <<year, month, day>> or NaT; price_gbp_num is a tuple <<pence>>   *)
(* (the price in hundredths) or NaN.                                       *)
(*                                                                         *)
(* A table (DataFrame) is a record [cols, index, rows]: the column labels, *)
(* the row labels and one tuple of cells per row, cell k belonging to      *)
(* column cols[k].                                                         *)
(***************************************************************************)
EXTENDS Integers, Sequences, FiniteSets, TLC

\* ------------------------------------------------------------------------
\* Characters and text
\* ------------------------------------------------------------------------

\* The characters of the model in code-point order (the order str uses).
CHARS ==
  << " ", "-", ".", "0", "1", "2", "3", "4", "5", "6", "7", "8", "9",
     "A", "B", "C", "D", "E", "F", "G", "H", "I", "J", "K", "L", "M",
     "N", "O", "P", "Q", "R", "S", "T", "U", "V", "W", "X", "Y", "Z",
     "_",
     "a", "b", "c", "d", "e", "f", "g", "h", "i", "j", "k", "l", "m",
     "n", "o", "p", "q", "r", "s", "t", "u", "v", "w", "x", "y", "z" >>

Ord(c) == CHOOSE i \in 1..Len(CHARS) : CHARS[i] = c

FirstDigit == Ord("0")
FirstUpper == Ord("A")
FirstLower == Ord("a")

IsDigit(c) == c \in {"0", "1", "2", "3", "4", "5", "6", "7", "8", "9"}
IsUpper(c) == \E i \in FirstUpper..(FirstUpper + 25) : CHARS[i] = c
IsLower(c) == \E i \in FirstLower..(FirstLower + 25) : CHARS[i] = c
IsCased(c) == IsUpper(c) \/ IsLower(c)
IsSpace(c) == c = " "

ToLower(c) == IF IsUpper(c) THEN CHARS[Ord(c) - FirstUpper + FirstLower] ELSE c
ToUpper(c) == IF IsLower(c) THEN CHARS[Ord(c) - FirstLower + FirstUpper] ELSE c

\* A missing value of a text column.  No text contains the cell "<NA>".
NA == << "<NA>" >>
IsNA(v) == v = NA

\* str.strip()
RECURSIVE LStrip(_)
LStrip(s) == IF s # << >> /\ IsSpace(Head(s)) THEN LStrip(Tail(s)) ELSE s

RECURSIVE RStrip(_)
RStrip(s) ==
  IF s # << >> /\ IsSpace(s[Len(s)]) THEN RStrip(SubSeq(s, 1, Len(s) - 1)) ELSE s

StrStrip(s) == RStrip(LStrip(s))

\* str.lower()
StrLower(s) == [i \in 1..Len(s) |-> ToLower(s[i])]

\* str.title(): a cased character is upper-cased when it follows an uncased
\* one (or starts the text) and lower-cased otherwise.
StrTitle(s) ==
  [i \in 1..Len(s) |->
     IF i = 1 \/ ~IsCased(s[i - 1]) THEN ToUpper(s[i]) ELSE ToLower(s[i])]

\* The .str accessor of a Series: a missing value stays missing.
SeriesStrip(v) == IF IsNA(v) THEN NA ELSE StrStrip(v)
SeriesLower(v) == IF IsNA(v) THEN NA ELSE StrLower(v)
SeriesTitle(v) == IF IsNA(v) THEN NA ELSE StrTitle(v)

\* astype(str): a missing value becomes the text "nan", never the empty text.
AsStr(v) == IF IsNA(v) THEN << "n", "a", "n" >> ELSE v

\* Text order of str: by code point, a proper prefix first.
RECURSIVE StrLess(_, _)
StrLess(a, b) ==
  IF b = << >> THEN FALSE
  ELSE IF a = << >> THEN TRUE
  ELSE IF Head(a) = Head(b) THEN StrLess(Tail(a), Tail(b))
  ELSE Ord(Head(a)) < Ord(Head(b))

\* ------------------------------------------------------------------------
\* pd.to_datetime(format="%Y-%m-%d", errors="coerce") and
\* pd.to_numeric(errors="coerce") on one cell
\* ------------------------------------------------------------------------

NaT == << >>
NaN == << >>

DigitVal(c) == Ord(c) - FirstDigit

RECURSIVE DigitsVal(_)
DigitsVal(s) ==
  IF s = << >> THEN 0 ELSE 10 * DigitsVal(SubSeq(s, 1, Len(s) - 1)) + DigitVal(s[Len(s)])

AllDigits(s) == \A i \in 1..Len(s) : IsDigit(s[i])

IsLeap(y) == (y % 4 = 0 /\ y % 100 # 0) \/ y % 400 = 0

DaysIn(y, m) ==
  IF m = 2 THEN (IF IsLeap(y) THEN 29 ELSE 28)
  ELSE IF m \in {4, 6, 9, 11} THEN 30 ELSE 31

\* A zero-padded YYYY-MM-DD text naming a day of the calendar parses; any
\* other cell (missing, blank, malformed, out of range) is NaT.  The input
\* files of the model hold no date written without zero padding or with
\* blanks around it.
ParseDate(v) ==
  IF IsNA(v) \/ Len(v) # 10 THEN NaT
  ELSE IF ~(v[5] = "-" /\ v[8] = "-" /\ AllDigits(SubSeq(v, 1, 4))
            /\ AllDigits(SubSeq(v, 6, 7)) /\ AllDigits(SubSeq(v, 9, 10)))
  THEN NaT
  ELSE LET y == DigitsVal(SubSeq(v, 1, 4))
           m == DigitsVal(SubSeq(v, 6, 7))
           d == DigitsVal(SubSeq(v, 9, 10))
       IN  IF y >= 1 /\ m \in 1..12 /\ d >= 1 /\ d <= DaysIn(y, m)
           THEN << y, m, d >> ELSE NaT

\* Position of the decimal point of a text, 0 when it has none.
DotPos(s) ==
  IF \E i \in 1..Len(s) : s[i] = "." THEN CHOOSE i \in 1..Len(s) : s[i] = "." ELSE 0

\* Unsigned decimal with at most two fraction digits, in hundredths.
ParseUnsigned(s) ==
  LET p    == DotPos(s)
      ip   == IF p = 0 THEN s ELSE SubSeq(s, 1, p - 1)
      fp   == IF p = 0 THEN << >> ELSE SubSeq(s, p + 1, Len(s))
  IN  IF ip = << >> /\ fp = << >> THEN NaN
      ELSE IF ~(AllDigits(ip) /\ AllDigits(fp)) \/ Len(fp) > 2 THEN NaN
      ELSE << 100 * DigitsVal(ip)
              + (IF Len(fp) = 1 THEN 10 * DigitsVal(fp) ELSE DigitsVal(fp)) >>

\* A decimal number with an optional sign parses to its value; a missing,
\* blank or non-numeric cell is NaN.  The input files of the model hold no
\* price with more than two fraction digits, an exponent or blanks around
\* the digits.
ParsePrice(v) ==
  IF IsNA(v) \/ v = << >> THEN NaN
  ELSE IF Head(v) = "-"
  THEN LET u == ParseUnsigned(Tail(v)) IN IF u = NaN THEN NaN ELSE << 0 - u[1] >>
  ELSE ParseUnsigned(v)

\* ------------------------------------------------------------------------
\* Column labels and controlled vocabularies
\* ------------------------------------------------------------------------

c_date          == << "d", "a", "t", "e" >>
c_seller_id     == << "s", "e", "l", "l", "e", "r", "_", "i", "d" >>
c_region        == << "r", "e", "g", "i", "o", "n" >>
c_category      == << "c", "a", "t", "e", "g", "o", "r", "y" >>
c_item_id       == << "i", "t", "e", "m", "_", "i", "d" >>
c_price_gbp     == << "p", "r", "i", "c", "e", "_", "g", "b", "p" >>
c_condition     == << "c", "o", "n", "d", "i", "t", "i", "o", "n" >>
c_date_parsed   == c_date \o << "_", "p", "a", "r", "s", "e", "d" >>
c_price_gbp_num == c_price_gbp \o << "_", "n", "u", "m" >>
c_segment       == << "s", "e", "g", "m", "e", "n", "t" >>

REQUIRED_COLS ==
  << c_date, c_seller_id, c_region, c_category, c_item_id, c_price_gbp, c_condition >>

VALID_REGIONS ==
  { << "N", "o", "r", "t", "h" >>, << "S", "o", "u", "t", "h" >>,
    << "E", "a", "s", "t" >>, << "W", "e", "s", "t" >> }

VALID_CONDITION ==
  { << "n", "e", "w" >>, << "u", "s", "e", "d" >>,
    << "r", "e", "f", "u", "r", "b", "i", "s", "h", "e", "d" >> }

Range(s) == {s[i] : i \in 1..Len(s)}

\* ------------------------------------------------------------------------
\* Tables
\* ------------------------------------------------------------------------

NRows(df) == Len(df.rows)
HasCol(cols, name) == \E k \in 1..Len(cols) : cols[k] = name
CountCol(cols, name) == Cardinality({k \in 1..Len(cols) : cols[k] = name})
Pos(cols, name) == CHOOSE k \in 1..Len(cols) : cols[k] = name

\* df[name] at row position i
Cell(df, i, name) == df.rows[i][Pos(df.cols, name)]

\* df[name] = vals: overwrites the column when the label exists, appends it
\* as the last column otherwise.
AssignCol(df, name, vals) ==
  IF HasCol(df.cols, name)
  THEN [df EXCEPT !.rows =
          [i \in 1..NRows(df) |-> [df.rows[i] EXCEPT ![Pos(df.cols, name)] = vals[i]]]]
  ELSE [df EXCEPT !.cols = Append(df.cols, name),
                  !.rows = [i \in 1..NRows(df) |-> Append(df.rows[i], vals[i])]]

\* The row positions a mask selects, in ascending order.
RECURSIVE Where(_, _)
Where(mask, n) ==
  IF n = 0 THEN << >>
  ELSE IF mask[n] THEN Append(Where(mask, n - 1), n) ELSE Where(mask, n - 1)

\* df.take(positions): rows and row labels in the order given.
Take(df, positions) ==
  [df EXCEPT !.index = [k \in 1..Len(positions) |-> df.index[positions[k]]],
             !.rows  = [k \in 1..Len(positions) |-> df.rows[positions[k]]]]

EmptyFrame == [cols |-> << >>, index |-> << >>, rows |-> << >>]

\* ------------------------------------------------------------------------
\* standardise_columns, the schema check, coerce_types
\* ------------------------------------------------------------------------

\* pd.read_csv: row labels 0..n-1.
load_csv(file) ==
  [cols |-> file.cols, index |-> [i \in 1..Len(file.rows) |-> i - 1], rows |-> file.rows]

\* Variant of standardise_columns that lower-cases without trimming.
standardise_columns_nostrip(df) ==
  [df EXCEPT !.cols = [k \in 1..Len(df.cols) |-> StrLower(df.cols[k])]]

standardise_columns(df) ==
  [df EXCEPT !.cols = [k \in 1..Len(df.cols) |-> StrLower(StrStrip(df.cols[k]))]]

\* [c for c in REQUIRED_COLS if c not in df_raw.columns], in REQUIRED_COLS order.
RECURSIVE MissingFrom(_, _)
MissingFrom(cols, n) ==
  IF n = 0 THEN << >>
  ELSE IF HasCol(cols, REQUIRED_COLS[n]) THEN MissingFrom(cols, n - 1)
  ELSE Append(MissingFrom(cols, n - 1), REQUIRED_COLS[n])

missing_cols(df) == MissingFrom(df.cols, Len(REQUIRED_COLS))

\* df[c] is a Series only when one column carries the label c; with two, it
\* is a DataFrame, on which to_datetime, to_numeric and .str all raise.
CoerceRaises(df) == \E c \in Range(REQUIRED_COLS) : CountCol(df.cols, c) > 1

StripCol(df, name) ==
  AssignCol(df, name, [i \in 1..NRows(df) |-> SeriesStrip(Cell(df, i, name))])
TitleCol(df, name) ==
  AssignCol(df, name, [i \in 1..NRows(df) |-> SeriesTitle(Cell(df, i, name))])
LowerCol(df, name) ==
  AssignCol(df, name, [i \in 1..NRows(df) |-> SeriesLower(Cell(df, i, name))])

coerce_types(df) ==
  LET d1 == AssignCol(df, c_date_parsed,
                      [i \in 1..NRows(df) |-> ParseDate(Cell(df, i, c_date))])
      d2 == AssignCol(d1, c_price_gbp_num,
                      [i \in 1..NRows(d1) |-> ParsePrice(Cell(d1, i, c_price_gbp))])
      d3 == StripCol(StripCol(StripCol(StripCol(StripCol(d2,
              c_seller_id), c_region), c_category), c_item_id), c_condition)
  IN  LowerCol(TitleCol(TitleCol(d3, c_region), c_category), c_condition)

\* ------------------------------------------------------------------------
\* validate
\* ------------------------------------------------------------------------

\* Truth values of a nullable boolean mask (Kleene logic).
K_TRUE  == "True"
K_FALSE == "False"
K_NA    == "<NA>"
KBool(b) == IF b THEN K_TRUE ELSE K_FALSE
KAnd(a, b) ==
  IF a = K_FALSE \/ b = K_FALSE THEN K_FALSE
  ELSE IF a = K_NA \/ b = K_NA THEN K_NA ELSE K_TRUE
KNot(a) == IF a = K_NA THEN K_NA ELSE KBool(a = K_FALSE)

\* series != "" on the string dtype: missing compares to missing.
KNotEmpty(v) == IF IsNA(v) THEN K_NA ELSE KBool(v # << >>)

invalid_date(df, i) == Cell(df, i, c_date_parsed) = NaT
\* Variant of invalid_price that lets a price of zero pass.
invalid_price_negative(df, i) ==
  LET p == Cell(df, i, c_price_gbp_num) IN p = NaN \/ p[1] < 0

invalid_price(df, i) ==
  LET p == Cell(df, i, c_price_gbp_num) IN p = NaN \/ p[1] <= 0
invalid_region(df, i) == Cell(df, i, c_region) \notin VALID_REGIONS
invalid_condition(df, i) == Cell(df, i, c_condition) \notin VALID_CONDITION

\* Variant of essential without seller_id.
essential_short == << c_date, c_category, c_item_id, c_price_gbp >>

essential == << c_date, c_seller_id, c_category, c_item_id, c_price_gbp >>

\* The three conjuncts the loop over the essential columns adds for column c.
EssentialCol(df, i, c) ==
  LET v == Cell(df, i, c)
  IN  KAnd(KAnd(KBool(~IsNA(v)), KBool(~IsNA(SeriesStrip(v)))),
           KNotEmpty(SeriesStrip(v)))

RECURSIVE EssentialMask(_, _, _, _)
EssentialMask(df, i, acc, k) ==
  IF k > Len(essential) THEN acc
  ELSE EssentialMask(df, i, KAnd(acc, EssentialCol(df, i, essential[k])), k + 1)

mask_valid(df, i) ==
  EssentialMask(df, i,
    KBool(~invalid_date(df, i) /\ ~invalid_price(df, i)
          /\ ~invalid_region(df, i) /\ ~invalid_condition(df, i)), 1)

\* int(mask.sum()): the number of rows a boolean Series marks.
MaskSum(mask) == Cardinality({i \in 1..Len(mask) : mask[i]})

null_counts(df) ==
  [c \in {c \in Range(REQUIRED_COLS) : HasCol(df.cols, c)} |->
     MaskSum([i \in 1..NRows(df) |-> IsNA(Cell(df, i, c))])]

empty_counts(df) ==
  [c \in {c \in Range(REQUIRED_COLS) : HasCol(df.cols, c)} |->
     MaskSum([i \in 1..NRows(df) |-> StrStrip(AsStr(Cell(df, i, c))) = << >>])]

\* Variant of validate_issues that tallies a row under the first rule it
\* fails only.
validate_issues_first(df) ==
  LET N == 1..NRows(df)
  IN  [missing_nulls     |-> null_counts(df),
       missing_empty     |-> empty_counts(df),
       invalid_date      |-> MaskSum([i \in N |-> invalid_date(df, i)]),
       invalid_price     |->
         MaskSum([i \in N |-> ~invalid_date(df, i) /\ invalid_price(df, i)]),
       invalid_region    |->
         MaskSum([i \in N |-> ~invalid_date(df, i) /\ ~invalid_price(df, i)
                               /\ invalid_region(df, i)]),
       invalid_condition |->
         MaskSum([i \in N |-> ~invalid_date(df, i) /\ ~invalid_price(df, i)
                               /\ ~invalid_region(df, i) /\ invalid_condition(df, i)])]

validate_issues(df) ==
  LET N == 1..NRows(df)
  IN  [missing_nulls     |-> null_counts(df),
       missing_empty     |-> empty_counts(df),
       invalid_date      |-> MaskSum([i \in N |-> invalid_date(df, i)]),
       invalid_price     |-> MaskSum([i \in N |-> invalid_price(df, i)]),
       invalid_region    |-> MaskSum([i \in N |-> invalid_region(df, i)]),
       invalid_condition |-> MaskSum([i \in N |-> invalid_condition(df, i)])]

validate_mask(df) == [i \in 1..NRows(df) |-> mask_valid(df, i)]

\* ------------------------------------------------------------------------
\* dedupe
\* ------------------------------------------------------------------------

\* Orders of sort_values on one column, missing values last.
RECURSIVE TupleLess(_, _)
TupleLess(a, b) ==
  IF a = << >> \/ b = << >> THEN FALSE
  ELSE IF Head(a) = Head(b) THEN TupleLess(Tail(a), Tail(b))
  ELSE Head(a) < Head(b)

DateLess(a, b) == IF a = NaT THEN FALSE ELSE IF b = NaT THEN TRUE ELSE TupleLess(a, b)
NumLess(a, b)  == IF a = NaN THEN FALSE ELSE IF b = NaN THEN TRUE ELSE a[1] < b[1]
TextLess(a, b) == IF IsNA(a) THEN FALSE ELSE IF IsNA(b) THEN TRUE ELSE StrLess(a, b)

\* subset=["date_parsed","seller_id","item_id"]
SameKey(df, i, j) ==
  /\ Cell(df, i, c_date_parsed) = Cell(df, j, c_date_parsed)
  /\ Cell(df, i, c_seller_id) = Cell(df, j, c_seller_id)
  /\ Cell(df, i, c_item_id) = Cell(df, j, c_item_id)

KeyLess(df, i, j) ==
  LET di == Cell(df, i, c_date_parsed)
      dj == Cell(df, j, c_date_parsed)
      si == Cell(df, i, c_seller_id)
      sj == Cell(df, j, c_seller_id)
  IN  \/ DateLess(di, dj)
      \/ di = dj /\ TextLess(si, sj)
      \/ di = dj /\ si = sj /\ TextLess(Cell(df, i, c_item_id), Cell(df, j, c_item_id))

\* Variant of RowLess that sorts by the natural key alone.
RowLess_keyonly(df, i, j) == KeyLess(df, i, j)

\* by=["date_parsed","seller_id","item_id","price_gbp_num"]
RowLess(df, i, j) ==
  \/ KeyLess(df, i, j)
  \/ SameKey(df, i, j)
       /\ NumLess(Cell(df, i, c_price_gbp_num), Cell(df, j, c_price_gbp_num))

\* Insert position x before the first position of the sorted run that sorts
\* strictly after it: rows comparing equal keep their given order.
RECURSIVE InsertSorted(_, _, _)
InsertSorted(df, sorted, x) ==
  IF sorted = << >> THEN << x >>
  ELSE IF RowLess(df, x, Head(sorted)) THEN << x >> \o sorted
  ELSE << Head(sorted) >> \o InsertSorted(df, Tail(sorted), x)

RECURSIVE SortPositions(_, _)
SortPositions(df, n) ==
  IF n = 0 THEN << >> ELSE InsertSorted(df, SortPositions(df, n - 1), n)

\* df.sort_values([...], kind="stable")
sort_values(df) == Take(df, SortPositions(df, NRows(df)))

\* df.drop_duplicates(subset=[...], keep="first")
drop_duplicates(df) ==
  Take(df, Where([k \in 1..NRows(df) |-> ~\E j \in 1..(k - 1) : SameKey(df, j, k)],
                 NRows(df)))

\* Variant of dedupe that drops duplicates without sorting first.
dedupe_unsorted(df) ==
  LET out == drop_duplicates(df)
  IN  [df |-> out, removed |-> NRows(df) - NRows(out)]

dedupe(df) ==
  LET out == drop_duplicates(sort_values(df))
  IN  [df |-> out, removed |-> NRows(df) - NRows(out)]

\* ------------------------------------------------------------------------
\* enrich
\* ------------------------------------------------------------------------

SUFFIX_X == << "_", "x" >>
SUFFIX_Y == << "_", "y" >>

\* The lookup columns other than the join key, by position.
RightCols(right) ==
  Where([k \in 1..Len(right.cols) |-> right.cols[k] # c_category], Len(right.cols))

\* Column labels of left.merge(right, how="left", on="category"): a label
\* both sides carry (other than the key) gets the suffix _x on the left
\* and _y on the right.
MergeCols(left, right) ==
  LET rc == RightCols(right)
  IN  [k \in 1..Len(left.cols) |->
         IF left.cols[k] # c_category /\ HasCol(right.cols, left.cols[k])
         THEN left.cols[k] \o SUFFIX_X ELSE left.cols[k]]
      \o
      [k \in 1..Len(rc) |->
         IF HasCol(left.cols, right.cols[rc[k]])
         THEN right.cols[rc[k]] \o SUFFIX_Y ELSE right.cols[rc[k]]]

\* The rows of the lookup whose key equals the key of left row i, in lookup
\* order.
Matches(left, right, i) ==
  Where([j \in 1..NRows(right) |->
           Cell(right, j, c_category) = Cell(left, i, c_category)], NRows(right))

\* One output row per matching lookup row; one row with the lookup columns
\* missing when nothing matches.
MergeBlock(left, right, i) ==
  LET rc == RightCols(right)
      m  == Matches(left, right, i)
  IN  IF m = << >>
      THEN << left.rows[i] \o [k \in 1..Len(rc) |-> NA] >>
      ELSE [n \in 1..Len(m) |->
              left.rows[i] \o [k \in 1..Len(rc) |-> right.rows[m[n]][rc[k]]]]

RECURSIVE MergeRows(_, _, _)
MergeRows(left, right, i) ==
  IF i > NRows(left) THEN << >>
  ELSE MergeBlock(left, right, i) \o MergeRows(left, right, i + 1)

\* For each output row of the merge, the row label of the left row it came
\* from (the merge itself relabels its rows 0..n-1).
RECURSIVE MergeOrigin(_, _, _)
MergeOrigin(left, right, i) ==
  IF i > NRows(left) THEN << >>
  ELSE [n \in 1..Len(MergeBlock(left, right, i)) |-> left.index[i]]
       \o MergeOrigin(left, right, i + 1)

merge_left(left, right) ==
  LET rows == MergeRows(left, right, 1)
  IN  [cols   |-> MergeCols(left, right),
       index  |-> [k \in 1..Len(rows) |-> k - 1],
       rows   |-> rows,
       origin |-> MergeOrigin(left, right, 1)]

enrich(df, lookup) ==
  merge_left(df, TitleCol(lookup, c_category))

\* ------------------------------------------------------------------------
\* Column selection and quality_stats
\* ------------------------------------------------------------------------

out_cols ==
  << c_date_parsed, c_seller_id, c_region, c_category, c_segment, c_item_id,
     c_price_gbp_num, c_condition >>

\* rename = {"date_parsed": "date", "price_gbp_num": "price_gbp"}
Renamed(name) ==
  IF name = c_date_parsed THEN c_date
  ELSE IF name = c_price_gbp_num THEN c_price_gbp ELSE name

\* df[out_cols] raises KeyError when a label is not a column of df.
SelectRaises(df) == \E c \in Range(out_cols) : ~HasCol(df.cols, c)

select_out(df) ==
  [df EXCEPT !.cols = [k \in 1..Len(out_cols) |-> Renamed(out_cols[k])],
             !.rows = [i \in 1..NRows(df) |->
                         [k \in 1..Len(out_cols) |-> Cell(df, i, out_cols[k])]]]

RECURSIVE InsertNum(_, _)
InsertNum(sorted, x) ==
  IF sorted = << >> THEN << x >>
  ELSE IF x < Head(sorted) THEN << x >> \o sorted
  ELSE << Head(sorted) >> \o InsertNum(Tail(sorted), x)

RECURSIVE SortNums(_)
SortNums(s) == IF s = << >> THEN << >> ELSE InsertNum(SortNums(Tail(s)), Head(s))

RECURSIVE SumNums(_)
SumNums(s) == IF s = << >> THEN 0 ELSE Head(s) + SumNums(Tail(s))

None == << >>

\* Series.quantile(a / b) of the ascending values s, interpolating linearly
\* between the two nearest order statistics; the result as a fraction.
Quantile(s, a, b) ==
  LET pos  == (Len(s) - 1) * a
      lo   == pos \div b
      frac == pos % b
      hi   == IF lo + 1 < Len(s) THEN lo + 1 ELSE lo
  IN  [num |-> s[lo + 1] * (b - frac) + s[hi + 1] * frac, den |-> b]

\* df[name].value_counts(dropna=False).to_dict()
value_counts(df, name) ==
  [v \in {Cell(df, i, name) : i \in 1..NRows(df)} |->
     Cardinality({i \in 1..NRows(df) : Cell(df, i, name) = v})]

\* The present prices of the price_gbp column, in hundredths.
PricesOf(df) ==
  LET present == Where([i \in 1..NRows(df) |-> Cell(df, i, c_price_gbp) # NaN], NRows(df))
  IN  [k \in 1..Len(present) |-> Cell(df, present[k], c_price_gbp)[1]]

quality_stats(df) ==
  LET price == SortNums(PricesOf(df))
      n     == Len(price)
  IN  [row_count |-> NRows(df),
       price |-> [min |-> IF n > 0 THEN << price[1] >> ELSE None,
                  max |-> IF n > 0 THEN << price[n] >> ELSE None,
                  avg |-> IF n > 0 THEN << [num |-> SumNums(price), den |-> n] >> ELSE None,
                  p50 |-> IF n > 0 THEN << Quantile(price, 1, 2) >> ELSE None,
                  p95 |-> IF n > 0 THEN << Quantile(price, 19, 20) >> ELSE None],
       by_region   |-> value_counts(df, c_region),
       by_category |-> value_counts(df, c_category),
       by_segment  |-> IF HasCol(df.cols, c_segment) THEN value_counts(df, c_segment)
                       ELSE << >>]

\* ------------------------------------------------------------------------
\* The run of main(): state
\* ------------------------------------------------------------------------

VARIABLES
  pc,           \* position in main()
  listings,     \* the file --listings: header and rows of cells
  lookup,       \* the file --lookup
  df_raw, lk,   \* the two tables as loaded (df_raw with standardised labels)
  df_typed,     \* coerce_types(df_raw)
  valid_mask,   \* validate's mask, one truth value per row of df_typed
  issues,       \* validate's tally
  df_invalid,   \* df_typed[~valid_mask]
  df_valid,     \* df_typed[valid_mask], then its dedupe
  dup_removed,  \* dedupe's removed count
  df_enriched,  \* enrich(df_valid, lk)
  df_out,       \* the clean output table
  dq,           \* the data quality report
  files,        \* names of the files written to --outdir
  error         \* the exception that ended the run, << >> when none

vars ==
  << pc, listings, lookup, df_raw, lk, df_typed, valid_mask, issues, df_invalid,
     df_valid, dup_removed, df_enriched, df_out, dq, files, error >>

\* ------------------------------------------------------------------------
\* Input files
\* ------------------------------------------------------------------------

\* Bounds of the model.
MaxRows == 3
MaxLookup == 2

SeqsUpTo(S, n) == UNION {[1..k -> S] : k \in 0..n}

StrUpper(s) == [i \in 1..Len(s) |-> ToUpper(s[i])]

t_d1    == << "2", "0", "2", "4", "-", "0", "1", "-", "0", "5" >>
t_d0    == << "2", "0", "2", "3", "-", "1", "2", "-", "3", "1" >>
t_dbad  == << "2", "0", "2", "4", "-", "0", "2", "-", "3", "0" >>
t_blank == << " " >>
t_S1    == << "S", "1" >>
t_I1    == << "I", "1" >>
t_tools == << "t", "o", "o", "l", "s" >>
t_new   == << "n", "e", "w" >>
t_north == << "n", "o", "r", "t", "h" >>
t_x     == << "x" >>

\* Cells of one listing row, in REQUIRED_COLS order.  read_csv never yields
\* an empty text: an empty field is read as missing.
DATES      == { t_d1, t_dbad, NA }
SELLERS    == { t_S1, t_blank, NA }
REGIONS    == { t_north, << "M", "a", "r", "s" >>, NA }
CATEGORIES == { t_tools, t_blank }
ITEMS      == { t_I1, NA }
PRICES     == { << "1", "9", ".", "9", "9" >>, << "-", "5" >>, << "0" >>, << "a", "b", "c" >>, t_blank, NA }
CONDITIONS == { << "N", "E", "W" >>, << "b", "r", "o", "k", "e", "n" >>, NA }

AnyRows == DATES \X SELLERS \X REGIONS \X CATEGORIES \X ITEMS \X PRICES \X CONDITIONS

\* Rows that share natural keys, tie on price, or fail validation.
r_a == << t_d1, t_S1, t_north, t_tools, t_I1, << "1", "0", ".", "0", "0" >>, t_new >>
r_b == << t_d1, t_S1, t_north, t_tools, t_I1, << "1", "2", ".", "0", "0" >>, << "u", "s", "e", "d" >> >>
r_c == << t_d1, << " ", "S", "1", " " >>, << "S", "O", "U", "T", "H" >>, t_tools, t_I1, << "1", "0" >>, << "R", "e", "f", "u", "r", "b", "i", "s", "h", "e", "d" >> >>
r_d == << t_d0, << "S", "2" >>, << "e", "a", "s", "t" >>, << "G", "a", "d", "g", "e", "t", "s" >>, t_I1, << "1", "2", ".", "0", "0" >>, t_new >>
r_e == << t_d1, t_S1, << "w", "e", "s", "t" >>, << "t", "o", "y", "s" >>, << "I", "0" >>, << "9", ".", "5" >>, << "U", "S", "E", "D" >> >>
r_f == << t_d1, << "A", "9" >>, t_north, t_tools, t_I1, << "1", "2", ".", "0", "0" >>, t_new >>
r_g == << t_d1, t_S1, << "M", "a", "r", "s" >>, NA, t_I1, << "-", "5" >>, t_new >>

KeyedRows == { r_a, r_b, r_c, r_d, r_e, r_f, r_g }

\* Lookup rows: category, segment.
l_a == << t_tools, << "H", "a", "r", "d", "w", "a", "r", "e" >> >>
l_b == << << "T", "o", "o", "l", "s" >>, << "D", "I", "Y" >> >>
l_c == << << "T", "o", "y", "s" >>, << "F", "u", "n" >> >>
l_d == << << "T", "O", "O", "L", "S" >>, << "H", "a", "r", "d", "w", "a", "r", "e" >> >>

LookupRows == { l_a, l_b, l_c, l_d }

LookupHeader == << c_category, c_segment >>

\* Headers of a lookup file that has the columns category and segment.
LookupHeaders ==
  { LookupHeader,
    << c_segment, c_category >>,
    << c_category, c_segment, << "n", "o", "t", "e", "s" >> >>,
    << c_category, c_segment, c_region >> }

\* The cells of a lookup row under a header: a third column holds "x".
LookupCells(header, r) ==
  [k \in 1..Len(header) |->
     IF header[k] = c_category THEN r[1]
     ELSE IF header[k] = c_segment THEN r[2] ELSE t_x]

LookupFile(header, rows) ==
  [cols |-> header, rows |-> [i \in 1..Len(rows) |-> LookupCells(header, rows[i])]]

\* Spellings of a column label in a listings header.
Spell(name, style) ==
  IF style = "plain" THEN name ELSE << " " >> \o StrUpper(name) \o << " ", " " >>

\* Columns a listings header may carry beyond the required ones.
ExtraCols ==
  { << >>, << << "n", "o", "t", "e", "s" >> >>, << << " ", "S", "e", "g", "m", "e", "n", "t" >> >>, << << "D", "A", "T", "E" >> >>,
    << c_date_parsed, << "N", "o", "t", "e", "s" >> >> }

\* The required labels at the positions of present, in REQUIRED_COLS order.
PresentCols(present, style) ==
  LET at == Where([k \in 1..Len(REQUIRED_COLS) |-> k \in present], Len(REQUIRED_COLS))
  IN  [k \in 1..Len(at) |-> Spell(REQUIRED_COLS[at[k]], style)]

ListingHeaders ==
  { PresentCols(present, style) \o extra :
      present \in SUBSET (1..Len(REQUIRED_COLS)),
      style \in {"plain", "loud"},
      extra \in ExtraCols }

\* The cells of a listing row under a header: the cell of a required column
\* is the row's value for it, the cell of any other column holds "x".
ListingCells(header, r) ==
  [k \in 1..Len(header) |->
     LET n == StrLower(StrStrip(header[k]))
     IN  IF HasCol(REQUIRED_COLS, n) THEN r[Pos(REQUIRED_COLS, n)] ELSE t_x]

ListingFile(header, rows) ==
  [cols |-> header, rows |-> [i \in 1..Len(rows) |-> ListingCells(header, rows[i])]]

\* Every single-row table over AnyRows.
InitAnyRow ==
  /\ \E r \in AnyRows : listings = ListingFile(REQUIRED_COLS, << r >>)
  /\ lookup = LookupFile(LookupHeader, << l_a >>)

\* Tables of up to MaxRows rows that collide on the natural key.
InitKeyed ==
  /\ \E rows \in SeqsUpTo(KeyedRows, MaxRows) : listings = ListingFile(REQUIRED_COLS, rows)
  /\ lookup = LookupFile(LookupHeader, << l_a, l_c >>)

\* Lookup tables of up to MaxLookup rows under every lookup header.
InitLookups ==
  /\ \E rows \in { << >>, << r_a, r_d >>, << r_e, r_a, r_b >> } :
       listings = ListingFile(REQUIRED_COLS, rows)
  /\ \E h \in LookupHeaders, lrows \in SeqsUpTo(LookupRows, MaxLookup) :
       lookup = LookupFile(h, lrows)

\* Every listings header over two rows.
InitHeaders ==
  /\ \E h \in ListingHeaders : listings = ListingFile(h, << r_a, r_g >>)
  /\ lookup = LookupFile(LookupHeader, << l_a >>)

Init ==
  /\ InitAnyRow \/ InitKeyed \/ InitLookups \/ InitHeaders
  /\ pc = "load"
  /\ df_raw = EmptyFrame
  /\ lk = EmptyFrame
  /\ df_typed = EmptyFrame
  /\ valid_mask = << >>
  /\ issues = << >>
  /\ df_invalid = EmptyFrame
  /\ df_valid = EmptyFrame
  /\ dup_removed = 0
  /\ df_enriched = EmptyFrame
  /\ df_out = EmptyFrame
  /\ dq = << >>
  /\ files = {}
  /\ error = << >>

\* ------------------------------------------------------------------------
\* The run of main(): steps
\* ------------------------------------------------------------------------

\* load_csvs and standardise_columns.
Load ==
  /\ pc = "load"
  /\ df_raw' = standardise_columns(load_csv(listings))
  /\ lk' = load_csv(lookup)
  /\ pc' = "schema"
  /\ UNCHANGED << listings, lookup, df_typed, valid_mask, issues, df_invalid, df_valid,
                  dup_removed, df_enriched, df_out, dq, files, error >>

\* raise SystemExit(f"ERROR: required columns missing: {missing_cols}")
SchemaAbort ==
  /\ pc = "schema"
  /\ missing_cols(df_raw) # << >>
  /\ error' = << "SystemExit", missing_cols(df_raw) >>
  /\ pc' = "aborted"
  /\ UNCHANGED << listings, lookup, df_raw, lk, df_typed, valid_mask, issues, df_invalid,
                  df_valid, dup_removed, df_enriched, df_out, dq, files >>

\* coerce_types raises on a required label that two columns carry.
CoerceAbort ==
  /\ pc = "schema"
  /\ missing_cols(df_raw) = << >>
  /\ CoerceRaises(df_raw)
  /\ error' = << "Exception", << "coerce_types" >> >>
  /\ pc' = "aborted"
  /\ UNCHANGED << listings, lookup, df_raw, lk, df_typed, valid_mask, issues, df_invalid,
                  df_valid, dup_removed, df_enriched, df_out, dq, files >>

CoerceTypes ==
  /\ pc = "schema"
  /\ missing_cols(df_raw) = << >>
  /\ ~CoerceRaises(df_raw)
  /\ df_typed' = coerce_types(df_raw)
  /\ pc' = "validate"
  /\ UNCHANGED << listings, lookup, df_raw, lk, valid_mask, issues, df_invalid, df_valid,
                  dup_removed, df_enriched, df_out, dq, files, error >>

\* validate, then the split into df_invalid and df_valid.
Validate ==
  /\ pc = "validate"
  /\ valid_mask' = validate_mask(df_typed)
  /\ issues' = validate_issues(df_typed)
  /\ df_invalid' = Take(df_typed, Where([i \in 1..NRows(df_typed) |->
                          KNot(validate_mask(df_typed)[i]) = K_TRUE], NRows(df_typed)))
  /\ df_valid' = Take(df_typed, Where([i \in 1..NRows(df_typed) |->
                        validate_mask(df_typed)[i] = K_TRUE], NRows(df_typed)))
  /\ pc' = "dedupe"
  /\ UNCHANGED << listings, lookup, df_raw, lk, df_typed, dup_removed, df_enriched,
                  df_out, dq, files, error >>

Dedupe ==
  /\ pc = "dedupe"
  /\ df_valid' = dedupe(df_valid).df
  /\ dup_removed' = dedupe(df_valid).removed
  /\ pc' = "enrich"
  /\ UNCHANGED << listings, lookup, df_raw, lk, df_typed, valid_mask, issues, df_invalid,
                  df_enriched, df_out, dq, files, error >>

Enrich ==
  /\ pc = "enrich"
  /\ df_enriched' = enrich(df_valid, lk)
  /\ pc' = "select"
  /\ UNCHANGED << listings, lookup, df_raw, lk, df_typed, valid_mask, issues, df_invalid,
                  df_valid, dup_removed, df_out, dq, files, error >>

\* df_enriched[out_cols] raises KeyError.
SelectAbort ==
  /\ pc = "select"
  /\ SelectRaises(df_enriched)
  /\ error' = << "KeyError", {c \in Range(out_cols) : ~HasCol(df_enriched.cols, c)} >>
  /\ pc' = "aborted"
  /\ UNCHANGED << listings, lookup, df_raw, lk, df_typed, valid_mask, issues, df_invalid,
                  df_valid, dup_removed, df_enriched, df_out, dq, files >>

Select ==
  /\ pc = "select"
  /\ ~SelectRaises(df_enriched)
  /\ df_out' = select_out(df_enriched)
  /\ pc' = "write"
  /\ UNCHANGED << listings, lookup, df_raw, lk, df_typed, valid_mask, issues, df_invalid,
                  df_valid, dup_removed, df_enriched, dq, files, error >>

\* The clean table (as CSV when the parquet engine is unavailable), the
\* report, the invalid rows when there are any, and the README.
Write ==
  /\ pc = "write"
  /\ \E parquet \in BOOLEAN :
       files' = { IF parquet THEN "clean_listings.parquet" ELSE "clean_listings.csv",
                  "data_quality_report.json", "README.txt" }
                \cup (IF NRows(df_invalid) > 0 THEN { "invalid_rows.csv" } ELSE {})
  /\ dq' = [input                   |-> [rows |-> NRows(df_raw)],
            validation_issues       |-> issues,
            rows_removed_invalid    |-> NRows(df_invalid),
            rows_removed_duplicates |-> dup_removed,
            output                  |-> quality_stats(df_out)]
  /\ pc' = "done"
  /\ UNCHANGED << listings, lookup, df_raw, lk, df_typed, valid_mask, issues, df_invalid,
                  df_valid, dup_removed, df_enriched, df_out, error >>

Next ==
  \/ Load
  \/ SchemaAbort
  \/ CoerceAbort
  \/ CoerceTypes
  \/ Validate
  \/ Dedupe
  \/ Enrich
  \/ SelectAbort
  \/ Select
  \/ Write

Spec == Init /\ [][Next]_vars

\* ------------------------------------------------------------------------
\* Properties
\* ------------------------------------------------------------------------

SchemaAborted == pc = "aborted" /\ error[1] = "SystemExit"

\* Row positions of df_typed that validate flagged valid, and the others.
ValidPos   == {i \in 1..NRows(df_typed) : valid_mask[i] = K_TRUE}
InvalidPos == (1..NRows(df_typed)) \ ValidPos

Labels(df) == {df.index[k] : k \in 1..NRows(df)}

\* The rules of validity read off one normalized row.
DatePresent(i)  == Cell(df_typed, i, c_date_parsed) # NaT
PricePositive(i) ==
  /\ Cell(df_typed, i, c_price_gbp_num) # NaN
  /\ Cell(df_typed, i, c_price_gbp_num)[1] > 0
RegionKnown(i)    == Cell(df_typed, i, c_region) \in VALID_REGIONS
ConditionKnown(i) == Cell(df_typed, i, c_condition) \in VALID_CONDITION
FieldFilled(i, c) ==
  /\ ~IsNA(Cell(df_typed, i, c))
  /\ StrStrip(Cell(df_typed, i, c)) # << >>
EssentialFilled(i) ==
  \A c \in {c_date, c_seller_id, c_category, c_item_id, c_price_gbp} : FieldFilled(i, c)

\* C1: when validate has returned, a row is flagged valid exactly when its parsed
\* date is present, its numeric price is present and above zero, its region
\* and condition are in their vocabularies, and date, seller_id, category,
\* item_id and price_gbp are present and non-empty after trimming; the flag
\* is never undetermined.
C1_ValidIffAllRules ==
  pc = "dedupe" =>
    /\ Len(valid_mask) = NRows(df_typed)
    /\ \A i \in 1..NRows(df_typed) :
         /\ valid_mask[i] \in {K_TRUE, K_FALSE}
         /\ valid_mask[i] = K_TRUE <=>
              /\ DatePresent(i)
              /\ PricePositive(i)
              /\ RegionKnown(i)
              /\ ConditionKnown(i)
              /\ EssentialFilled(i)

\* A row that passes the date, price, region and condition rules and is
\* flagged invalid for a blank or missing seller_id, category or item_id.
C1_Witness ==
  /\ pc = "dedupe"
  /\ \E i \in InvalidPos :
       DatePresent(i) /\ PricePositive(i) /\ RegionKnown(i) /\ ConditionKnown(i)

\* C2: enrichment returns as many rows as it is given, for every lookup
\* table, one with a repeated category key included.
C2_EnrichKeepsRowCount ==
  pc = "select" => NRows(df_enriched) = NRows(df_valid)

\* C3: in a completed run the report's totals reconcile: removed-invalid
\* plus flagged-valid is the input row count, and flagged-valid minus
\* removed-duplicates is the output row count.
C3_ReportTotalsReconcile ==
  pc = "done" =>
    /\ dq.rows_removed_invalid + Cardinality(ValidPos) = dq.input.rows
    /\ Cardinality(ValidPos) - dq.rows_removed_duplicates = dq.output.row_count

\* The natural key and the price of a row of df_typed.
NaturalKey(i) ==
  << Cell(df_typed, i, c_date_parsed), Cell(df_typed, i, c_seller_id),
     Cell(df_typed, i, c_item_id) >>
PriceOf(i) == Cell(df_typed, i, c_price_gbp_num)[1]

\* Row i is the cheapest valid row of its key, the earliest of the cheapest.
BestOfKey(i) ==
  \A j \in ValidPos :
    NaturalKey(j) = NaturalKey(i) =>
      PriceOf(i) < PriceOf(j) \/ (PriceOf(i) = PriceOf(j) /\ i <= j)

\* C4: dedupe keeps, of the valid rows of each natural key, exactly the one
\* with the lowest price, the earliest in the input among equal prices, and
\* reports the number of valid rows minus the number of distinct keys.
C4_DedupeKeepsCheapestEarliest ==
  pc = "enrich" =>
    /\ Labels(df_valid) = {i - 1 : i \in {v \in ValidPos : BestOfKey(v)}}
    /\ NRows(df_valid) = Cardinality({NaturalKey(i) : i \in ValidPos})
    /\ \A k \in 1..NRows(df_valid) : df_valid.rows[k] = df_typed.rows[df_valid.index[k] + 1]
    /\ dup_removed = Cardinality(ValidPos) - Cardinality({NaturalKey(i) : i \in ValidPos})

\* Two valid rows of one key where the later row of the input is the
\* cheaper one, and two of one key at the same price.
C4_Witness ==
  /\ pc = "enrich"
  /\ dup_removed >= 1
  /\ \E i, j \in ValidPos :
       i < j /\ NaturalKey(i) = NaturalKey(j) /\ PriceOf(j) < PriceOf(i)
         /\ j - 1 \in Labels(df_valid)

\* The required labels no column of the listings header carries after
\* trimming and lower-casing.
MissingRequired ==
  {c \in Range(REQUIRED_COLS) :
     ~\E k \in 1..Len(listings.cols) : StrLower(StrStrip(listings.cols[k])) = c}

LookupHasColumns == HasCol(lookup.cols, c_category) /\ HasCol(lookup.cols, c_segment)

\* C5: with the seven required columns present, whatever other columns the
\* listings carry, and a lookup with category and segment, the run does not
\* abort and the clean table has exactly the eight output columns in order;
\* only a missing required column aborts a run.
C5_OnlyMissingColumnsAbort ==
  /\ pc = "aborted" /\ LookupHasColumns => error[1] = "SystemExit" /\ MissingRequired # {}
  /\ pc = "write" /\ LookupHasColumns =>
       df_out.cols = << c_date, c_seller_id, c_region, c_category, c_segment,
                        c_item_id, c_price_gbp, c_condition >>

\* The rules of the tally read off one row as loaded.
RawCell(i, c) == Cell(df_raw, i, c)
RawBadDate(i)  == ParseDate(RawCell(i, c_date)) = NaT
RawBadPrice(i) ==
  ParsePrice(RawCell(i, c_price_gbp)) = NaN \/ ParsePrice(RawCell(i, c_price_gbp))[1] <= 0
RawBadRegion(i) ==
  IsNA(RawCell(i, c_region)) \/ StrTitle(StrStrip(RawCell(i, c_region))) \notin VALID_REGIONS
RawBadCondition(i) ==
  IsNA(RawCell(i, c_condition))
    \/ StrLower(StrStrip(RawCell(i, c_condition))) \notin VALID_CONDITION
RawNull(i, c)  == IsNA(RawCell(i, c))
RawEmpty(i, c) == ~IsNA(RawCell(i, c)) /\ StrStrip(RawCell(i, c)) = << >>

Bit(b) == IF b THEN 1 ELSE 0

RECURSIVE SumOver(_, _)
SumOver(f, S) ==
  IF S = {} THEN 0 ELSE LET x == CHOOSE x \in S : TRUE IN f[x] + SumOver(f, S \ {x})

\* The number of tallied rules row i violates.
RulesViolated(i) ==
  Bit(RawBadDate(i)) + Bit(RawBadPrice(i)) + Bit(RawBadRegion(i)) + Bit(RawBadCondition(i))
  + SumOver([c \in Range(REQUIRED_COLS) |-> Bit(RawNull(i, c)) + Bit(RawEmpty(i, c))],
            Range(REQUIRED_COLS))

TallyTotal ==
  issues.invalid_date + issues.invalid_price + issues.invalid_region
  + issues.invalid_condition
  + SumOver(issues.missing_nulls, Range(REQUIRED_COLS))
  + SumOver(issues.missing_empty, Range(REQUIRED_COLS))

\* C6: every tally counts the input rows that violate its own rule, whatever
\* else the row violates, so the tallies add up to the rules violated over
\* all rows; a row is in the invalid set once however many rules it
\* violates; and every row of the invalid set violates a tallied rule.
C6_TalliesIndependent ==
  /\ pc = "done" =>
       dq.validation_issues = issues /\ dq.rows_removed_invalid = NRows(df_invalid)
  /\ pc = "dedupe" =>
    LET N == 1..NRows(df_raw) IN
    /\ issues.invalid_date = Cardinality({i \in N : RawBadDate(i)})
    /\ issues.invalid_price = Cardinality({i \in N : RawBadPrice(i)})
    /\ issues.invalid_region = Cardinality({i \in N : RawBadRegion(i)})
    /\ issues.invalid_condition = Cardinality({i \in N : RawBadCondition(i)})
    /\ \A c \in Range(REQUIRED_COLS) :
         /\ issues.missing_nulls[c] = Cardinality({i \in N : RawNull(i, c)})
         /\ issues.missing_empty[c] = Cardinality({i \in N : RawEmpty(i, c)})
    /\ TallyTotal = SumOver([i \in N |-> RulesViolated(i)], N)
    /\ NRows(df_invalid) = Cardinality(Labels(df_invalid))
    /\ Labels(df_invalid) = {i - 1 : i \in InvalidPos}
    /\ \A i \in InvalidPos : RulesViolated(i) >= 1

\* Two rows in the invalid set, one of them violating three rules or more.
C6_Witness ==
  /\ pc = "dedupe"
  /\ NRows(df_invalid) >= 2
  /\ \E i \in InvalidPos : RulesViolated(i) >= 3
  /\ TallyTotal > NRows(df_invalid)

\* C7: when a required column is absent from the header (labels trimmed and
\* lower-cased), the run aborts at the schema check, names exactly the
\* missing required columns, and no row is coerced, validated, deduplicated
\* or enriched and no file is written.
C7_MissingColumnAborts ==
  /\ pc \notin {"load", "schema", "aborted"} => MissingRequired = {}
  /\ pc = "aborted" /\ MissingRequired # {} =>
       /\ error[1] = "SystemExit"
       /\ Range(error[2]) = MissingRequired
       /\ Len(error[2]) = Cardinality(MissingRequired)
       /\ \A a, b \in 1..Len(error[2]) :
            a < b => Pos(REQUIRED_COLS, error[2][a]) < Pos(REQUIRED_COLS, error[2][b])
       /\ df_typed.cols = << >> /\ valid_mask = << >>
       /\ df_invalid.cols = << >> /\ df_valid.cols = << >>
       /\ df_enriched.cols = << >> /\ df_out.cols = << >>
       /\ files = {}

\* An aborted run whose header lacks two required columns or more and
\* spells the others in capitals between blanks.
C7_Witness ==
  /\ SchemaAborted
  /\ Cardinality(MissingRequired) >= 2
  /\ \E k \in 1..Len(listings.cols) :
       listings.cols[k] # StrLower(StrStrip(listings.cols[k]))

\* C8: every input row is in exactly one of the valid set and the invalid
\* rows table; a row failing a rule of validity is in the invalid rows
\* table once, unchanged, and never in the clean output; the invalid rows
\* file is written exactly when there is an invalid row.
C8_InvalidRowsPreserved ==
  /\ pc = "dedupe" =>
       /\ Labels(df_invalid) \cup {i - 1 : i \in ValidPos} = {i - 1 : i \in 1..NRows(df_raw)}
       /\ Labels(df_invalid) \cap {i - 1 : i \in ValidPos} = {}
       /\ NRows(df_invalid) = Cardinality(Labels(df_invalid))
       /\ \A k \in 1..NRows(df_invalid) :
            df_invalid.rows[k] = df_typed.rows[df_invalid.index[k] + 1]
       /\ \A i \in 1..NRows(df_raw) :
            RulesViolated(i) >= 1 => (i - 1) \in Labels(df_invalid)
  /\ pc = "write" => \A k \in 1..NRows(df_out) : df_out.origin[k] \notin Labels(df_invalid)
  /\ pc = "done" => ("invalid_rows.csv" \in files <=> NRows(df_invalid) >= 1)

\* A completed run with invalid rows written out beside a non-empty clean
\* table.
C8_Witness ==
  /\ pc = "done"
  /\ NRows(df_invalid) >= 1
  /\ NRows(df_out) >= 1
  /\ "invalid_rows.csv" \in files

\* Order of natural keys: by date, then seller_id, then item_id.
KeyBefore(x, y) ==
  \/ DateLess(x[1], y[1])
  \/ x[1] = y[1] /\ TextLess(x[2], y[2])
  \/ x[1] = y[1] /\ x[2] = y[2] /\ TextLess(x[3], y[3])

KeyAt(df, k, datecol) ==
  << Cell(df, k, datecol), Cell(df, k, c_seller_id), Cell(df, k, c_item_id) >>

\* The sequence s without the repetitions of an element next to itself.
RECURSIVE Collapse(_)
Collapse(s) ==
  IF Len(s) <= 1 THEN s
  ELSE IF s[1] = s[2] THEN Collapse(Tail(s)) ELSE << s[1] >> \o Collapse(Tail(s))

\* C9: the table dedupe returns is in non-decreasing order of (date_parsed,
\* seller_id, item_id), and enrichment and column selection keep the rows
\* in that order.
C9_SortOrderPreserved ==
  /\ pc = "enrich" =>
       \A k \in 1..(NRows(df_valid) - 1) :
         ~KeyBefore(KeyAt(df_valid, k + 1, c_date_parsed), KeyAt(df_valid, k, c_date_parsed))
  /\ pc = "select" => Collapse(df_enriched.origin) = df_valid.index
  /\ pc = "write" =>
       /\ df_out.origin = df_enriched.origin
       /\ \A k \in 1..(NRows(df_out) - 1) :
            ~KeyBefore(KeyAt(df_out, k + 1, c_date), KeyAt(df_out, k, c_date))

\* A clean table of two rows or more whose order is not the input order.
C9_Witness ==
  /\ pc = "write"
  /\ NRows(df_out) >= 2
  /\ \E k \in 1..(NRows(df_valid) - 1) : df_valid.index[k + 1] < df_valid.index[k]

\* C10: in a completed run no two rows of the clean table share the natural
\* key (date, seller_id, item_id).
C10_OutputKeysUnique ==
  pc = "done" =>
    \A a, b \in 1..NRows(df_out) :
      KeyAt(df_out, a, c_date) = KeyAt(df_out, b, c_date) => a = b

====
